---- MODULE Spec2Model ----
(***************************************************************************)
(* Search, retry, filter and batch behaviour of the data-directory         *)
(* collector: src/core/search_engine.py (SerpAPI engine),                  *)
(* src/core/free_search_engine.py (free engine), src/scraper/              *)
(* search_engine.py (legacy scraper) and config/config.py.                 *)
(*                                                                         *)
(* Scores (relevance_score, confidence_score, thresholds) are kept in      *)
(* hundredths: 0.3 is 30, 0.6 is 60.  Python dicts are functions from      *)
(* key strings, so a missing key is a string outside DOMAIN.               *)
(***************************************************************************)
EXTENDS Integers, Sequences, FiniteSets, TLC

\* ---------------------------------------------------------------- config
RESULTS_PER_QUERY == 15
SEARCH_DELAY == 1
MAX_RETRIES == 3
RELEVANCE_THRESHOLD == 60
min_relevance == 30
FREE_RESULTS_LIMIT == 10

\* ---------------------------------------------------------------- bounds
MaxQueries == 2
MaxFewHits == 2
MaxExtraHits == 1
MaxLen == 3
MaxWords == 2

VARIABLES engine, google_available, all_results, queries, i, pc, attempt, calls,
          provider_calls, slept, last_outcome, query_result, results,
          search_count, provider_failed, finput, foutput,
          use_free_search, serpapi_key, init_error,
          raw_hit, target_domain, analysis, words_added, conf_call,
          analyzer_self, other_analysis, repeat_analysis

\* all_results holds the raw hits the last search_query call worked on

\* ManufacturingDataCollector.__init__: the engine choice and its outcome
main_vars == <<use_free_search, serpapi_key, init_error>>

\* one call of DataSourceAnalyzer: the raw hit, the domain, the record; the
\* analyzer's own fields, and the records of the calls that follow
analyzer_vars == <<raw_hit, target_domain, analysis, words_added, conf_call,
                   analyzer_self, other_analysis, repeat_analysis>>

vars == <<main_vars, analyzer_vars, engine, google_available, all_results, queries, i, pc, attempt, calls,
          provider_calls, slept, last_outcome, query_result, results,
          search_count, provider_failed, finput, foutput>>

batch_vars == <<main_vars, analyzer_vars, engine, google_available, all_results, queries, i, attempt, calls,
                provider_calls, slept, last_outcome, query_result, results,
                search_count, provider_failed>>

\* no analyzer call in progress
EmptyHit == [url |-> <<>>, title |-> <<>>, snippet |-> <<>>]

AnalyzerIdle ==
    /\ raw_hit = EmptyHit
    /\ target_domain = ""
    /\ analysis = <<>>
    /\ words_added = <<>>
    /\ conf_call = <<>>
    /\ analyzer_self = <<>>
    /\ other_analysis = <<>>
    /\ repeat_analysis = <<>>

\* ------------------------------------------------------- python helpers
Min(a, b) == IF a <= b THEN a ELSE b

\* d.get(k, default)
Get(d, k, default) == IF k \in DOMAIN d THEN d[k] ELSE default

\* d.update(e), as the updated dict
Update(d, e) ==
    [k \in (DOMAIN d) \cup (DOMAIN e) |-> IF k \in DOMAIN e THEN e[k] ELSE d[k]]

\* s[:n]
Take(s, n) == SubSeq(s, 1, Min(Len(s), n))

\* one step of list.sort(key=confidence_score, reverse=True): r goes behind
\* every element whose key is at least its own (the sort is stable also when
\* reversed)
InsertByConfidenceUnstable(s, r) ==
    LET k == Cardinality({j \in 1..Len(s) :
                            s[j].confidence_score > r.confidence_score})
    IN  SubSeq(s, 1, k) \o <<r>> \o SubSeq(s, k + 1, Len(s))

InsertByConfidence(s, r) ==
    LET k == Cardinality({j \in 1..Len(s) :
                            s[j].confidence_score >= r.confidence_score})
    IN  SubSeq(s, 1, k) \o <<r>> \o SubSeq(s, k + 1, Len(s))

SortByConfidenceUnsorted(s) == s

SortByConfidence(s) ==
    LET F[n \in 0..Len(s)] ==
            IF n = 0 THEN <<>> ELSE InsertByConfidence(F[n - 1], s[n])
    IN  F[Len(s)]

\* mutant: the record kept for a domain is the last one met
UniqueByDomainKeepLast(s) ==
    LET Keep(j) == \A k \in (j + 1)..Len(s) : s[k].domain # s[j].domain
        F[n \in 0..Len(s)] ==
            IF n = 0 THEN <<>>
            ELSE IF Keep(n) THEN Append(F[n - 1], s[n]) ELSE F[n - 1]
    IN  F[Len(s)]

\* the seen_domains loop: keep a record when no earlier one has its domain
UniqueByDomain(s) ==
    LET Keep(j) == \A k \in 1..(j - 1) : s[k].domain # s[j].domain
        F[n \in 0..Len(s)] ==
            IF n = 0 THEN <<>>
            ELSE IF Keep(n) THEN Append(F[n - 1], s[n]) ELSE F[n - 1]
    IN  F[Len(s)]

\* ------------------------------------- SearchEngine._filter_results
PassesThreshold(r) == r.relevance_score >= min_relevance

\* mutant: the list is returned in reverse
filter_results_reversed(rs) ==
    LET filtered == SelectSeq(rs, PassesThreshold)
        sorted == SortByConfidence(filtered)
        unique == UniqueByDomain(sorted)
    IN  [j \in 1..Len(unique) |-> unique[Len(unique) + 1 - j]]

filter_results(rs) ==
    LET filtered == SelectSeq(rs, PassesThreshold)
        sorted == SortByConfidence(filtered)
    IN  UniqueByDomain(sorted)

\* ------------------------------------------------- query generators
\* DomainManager._generate_basic_queries: no prompt_template key
BasicQuery(k) ==
    [query_id |-> "basic_" \o ToString(k),
     search_query |-> "query " \o ToString(k),
     query_type |-> "basic"]

\* DomainManager._generate_base_queries: with a prompt_template key
BaseQuery(k) ==
    [query_id |-> "general_" \o ToString(k),
     prompt_template |-> "template",
     search_query |-> "query " \o ToString(k),
     query_type |-> "general"]

QueryBatches ==
    UNION {
        {[k \in 1..n |-> IF f[k] = "basic" THEN BasicQuery(k) ELSE BaseQuery(k)] :
           f \in [1..n -> {"basic", "base"}]} :
        n \in 0..MaxQueries}

\* --------------------------------------------------- provider responses
HitCounts(limit) ==
    (0..MaxFewHits) \cup {limit + j : j \in 0..MaxExtraHits}

\* the k-th organic result of a response.  netloc is the host of its link;
\* relevance and confidence are the scores the analyzer computes from its
\* text; malformed marks a hit with a field of the wrong shape
Hit(p, k) ==
    IF p = "distinct"
    THEN [link |-> "https://h" \o ToString(k) \o ".in/",
          netloc |-> "h" \o ToString(k) \o ".in",
          relevance |-> 70, confidence |-> 80, malformed |-> FALSE]
    ELSE [link |-> "https://m" \o ToString(k % 2) \o ".in/" \o ToString(k),
          netloc |-> "m" \o ToString(k % 2) \o ".in",
          relevance |-> IF k % 3 = 0 THEN 25 ELSE 45,
          confidence |-> 50 + 10 * (k % 3),
          malformed |-> (k = 2)]

HitPatterns == {"distinct", "mixed"}

OrganicResults == {[k \in 1..n |-> Hit(p, k)] :
                     n \in HitCounts(RESULTS_PER_QUERY), p \in HitPatterns}

\* what GoogleSearch(...).get_dict() hands back when it does not raise
Responses ==
    {[kind |-> "None"],
     [kind |-> "dict", body |-> <<>>],
     [kind |-> "dict", body |-> [error |-> "no results"]]}
    \cup {[kind |-> "dict", body |-> [organic_results |-> h]] : h \in OrganicResults}

TransportError == "transport error"

\* how many raw hits a response carries, as search_query sees it
ResponseKind(resp) ==
    IF resp.kind = "None" \/ DOMAIN resp.body = {} THEN "none"
    ELSE IF "organic_results" \notin DOMAIN resp.body THEN "no_hit_list"
    ELSE IF resp.body.organic_results = <<>> THEN "empty_hit_list"
    ELSE "hits"

\* -------------------------------------------------- result structures
create_empty_result(query) ==
    [query |-> query, total_results |-> 0, analyzed_results |-> 0,
     relevant_results |-> 0, results |-> <<>>, status |-> "no_results"]

create_error_result(query, error_msg) ==
    [query |-> query, total_results |-> 0, analyzed_results |-> 0,
     relevant_results |-> 0, results |-> <<>>, status |-> "error",
     error_message |-> error_msg]

\* ------------------------------------------- SearchEngine.search_query
analyze_search_result(hit) ==
    [url |-> hit.link, domain |-> hit.netloc,
     relevance_score |-> hit.relevance, confidence_score |-> hit.confidence]

\* mutant: every organic result is analysed, the [:max_results] slice is lost
AnalyzeHitsUnsliced(organic, max_results) ==
    LET good == SelectSeq(organic, LAMBDA h : ~h.malformed)
    IN  [j \in 1..Len(good) |-> analyze_search_result(good[j])]

\* the loop over organic_results[:max_results]; a hit whose analysis raises
\* is skipped
AnalyzeHits(organic, max_results) ==
    LET good == SelectSeq(Take(organic, max_results), LAMBDA h : ~h.malformed)
    IN  [j \in 1..Len(good) |-> analyze_search_result(good[j])]

Falsy(resp) == resp.kind = "None" \/ DOMAIN resp.body = {}

\* the hits of a response the loop of search_query runs over before the
\* slice; none when the response leads to the no-results return
raw_hits(resp) ==
    IF Falsy(resp) \/ "organic_results" \notin DOMAIN resp.body THEN <<>>
    ELSE resp.body.organic_results

\* mutant: a hit whose analysis raises is counted in analyzed_results
search_query_counts_skipped(query, resp) ==
    IF Falsy(resp) \/ "organic_results" \notin DOMAIN resp.body
    THEN create_empty_result(query)
    ELSE LET organic == resp.body.organic_results
             analyzed == AnalyzeHits(organic, RESULTS_PER_QUERY)
             filtered == filter_results(analyzed)
         IN  [query |-> query,
              total_results |-> Len(organic),
              analyzed_results |-> Len(Take(organic, RESULTS_PER_QUERY)),
              relevant_results |-> Len(filtered),
              results |-> filtered]

\* the record search_query returns for a response of the provider
search_query(query, resp) ==
    IF Falsy(resp) \/ "organic_results" \notin DOMAIN resp.body
    THEN create_empty_result(query)
    ELSE LET organic == resp.body.organic_results
             analyzed == AnalyzeHits(organic, RESULTS_PER_QUERY)
             filtered == filter_results(analyzed)
         IN  [query |-> query,
              total_results |-> Len(organic),
              analyzed_results |-> Len(analyzed),
              relevant_results |-> Len(filtered),
              results |-> filtered]

\* mutant: every path sleeps and counts
IsQueryResultAlways(r) == TRUE

\* the success path is the one that sleeps and counts
IsQueryResult(r) == "status" \notin DOMAIN r

\* --------------------------------------------- SearchEngine.batch_search
\* result.update({...}) with query_info['prompt_template']: a KeyError lands
\* in the except branch, which appends a fresh error record
batch_record(query_info, result) ==
    IF {"query_id", "prompt_template", "query_type"} \subseteq DOMAIN query_info
    THEN Update(result, [query_id |-> query_info.query_id,
                         prompt_template |-> query_info.prompt_template,
                         query_type |-> query_info.query_type])
    ELSE create_error_result(query_info.search_query, "'prompt_template'")

\* ------------------------------------------------- FreeSearchEngine
free_max_results == Min(RESULTS_PER_QUERY, FREE_RESULTS_LIMIT)

\* the k-th URL google_search yields: all different, or with an empty one,
\* literal repeats and several paths of one host
FreeUrl(p, k) ==
    IF p = "distinct" THEN "https://h" \o ToString(k) \o ".in/"
    ELSE IF k = 2 THEN ""
    ELSE "https://r.in/" \o ToString((k % 3) % 2)

GoogleUrls == {[k \in 1..n |-> FreeUrl(p, k)] :
                 n \in HitCounts(free_max_results), p \in HitPatterns}

\* _search_google_simple: urls[:max_results] as raw hits; an exception of
\* google_search is swallowed and leaves the list empty
search_google_simple(urls) ==
    [k \in 1..Len(Take(urls, free_max_results)) |->
        [url |-> urls[k], source |-> "google_free"]]

\* _create_intelligent_fallback: every branch returns two hits with
\* different non-empty URLs; these are the ones of Chemical_Petrochemical
create_intelligent_fallback ==
    <<[url |-> "https://www.chemicalweekly.com/directory",
       source |-> "intelligent_fallback"],
      [url |-> "https://www.ficci.in/sector/21/Project_docs/chemicals-report.pdf",
       source |-> "intelligent_fallback"]>>

HasUrl(r) == r.url # ""

\* mutant: of the hits with one URL the last is kept
remove_duplicates_keep_last(rs) ==
    LET Keep(j) == HasUrl(rs[j])
                   /\ \A k \in (j + 1)..Len(rs) : rs[k].url # rs[j].url
        F[n \in 0..Len(rs)] ==
            IF n = 0 THEN <<>>
            ELSE IF Keep(n) THEN Append(F[n - 1], rs[n]) ELSE F[n - 1]
    IN  F[Len(rs)]

\* the seen_urls loop: keep a hit with a non-empty URL no earlier hit has
remove_duplicates(rs) ==
    LET Keep(j) == HasUrl(rs[j]) /\ \A k \in 1..(j - 1) : rs[k].url # rs[j].url
        F[n \in 0..Len(rs)] ==
            IF n = 0 THEN <<>>
            ELSE IF Keep(n) THEN Append(F[n - 1], rs[n]) ELSE F[n - 1]
    IN  F[Len(rs)]

\* list.sort(key=relevance_score or 0.5, reverse=True), stable
SortByRelevance(s) ==
    LET Key(r) == Get(r, "relevance_score", 50)
        Insert(t, r) ==
            LET k == Cardinality({j \in 1..Len(t) : Key(t[j]) >= Key(r)})
            IN  SubSeq(t, 1, k) \o <<r>> \o SubSeq(t, k + 1, Len(t))
        F[n \in 0..Len(s)] ==
            IF n = 0 THEN <<>> ELSE Insert(F[n - 1], s[n])
    IN  F[Len(s)]

analyze_results(rs) ==
    [k \in 1..Len(rs) |->
        [url |-> rs[k].url, source |-> rs[k].source,
         domain |-> Get(rs[k], "domain", ""),
         relevance_score |-> 70, confidence_score |-> 80]]

free_filter_results(rs) ==
    Take(SortByRelevance(remove_duplicates(rs)), free_max_results)

free_create_empty_result(query) ==
    [query |-> query, total_results |-> 0, unique_results |-> 0,
     analyzed_results |-> 0, relevant_results |-> 0, results |-> <<>>,
     status |-> "no_results"]

free_create_error_result(query, error_msg) ==
    [query |-> query, total_results |-> 0, unique_results |-> 0,
     analyzed_results |-> 0, relevant_results |-> 0, results |-> <<>>,
     status |-> "error", error_message |-> error_msg]

\* the raw hits search_query collects: Google's, or the fallback's when
\* Google gave none
collect_results(google_results) ==
    IF google_results # <<>> THEN google_results
    ELSE create_intelligent_fallback

\* the record FreeSearchEngine.search_query returns when Google gave
\* google_results (empty when unavailable or failed)
free_search_query(query, google_results) ==
    LET collected == collect_results(google_results)
    IN  IF collected = <<>> THEN free_create_empty_result(query)
        ELSE LET unique_results == remove_duplicates(collected)
                 analyzed == analyze_results(unique_results)
                 filtered == free_filter_results(analyzed)
             IN  [query |-> query,
                  total_results |-> Len(collected),
                  unique_results |-> Len(unique_results),
                  analyzed_results |-> Len(analyzed),
                  relevant_results |-> Len(filtered),
                  results |-> filtered]

free_batch_record(query_info, result) ==
    IF {"query_id", "query_type"} \subseteq DOMAIN query_info
    THEN Update(result, [query_id |-> query_info.query_id,
                         prompt_template |-> Get(query_info, "prompt_template", ""),
                         query_type |-> query_info.query_type])
    ELSE free_create_error_result(query_info.search_query, "'query_type'")

\* random.uniform(1, 2), in whole seconds
Jitter == {1, 2}

\* ------------------------------------------------ batch specification
Init ==
    /\ engine \in {"serpapi", "free"}
    /\ google_available \in (IF engine = "free" THEN BOOLEAN ELSE {FALSE})
    /\ queries \in QueryBatches
    /\ i = 0
    /\ pc = "loop"
    /\ attempt = 0
    /\ calls = 0
    /\ provider_calls = 0
    /\ slept = 0
    /\ last_outcome = "none"
    /\ query_result = <<>>
    /\ results = <<>>
    /\ search_count = 0
    /\ all_results = <<>>
    /\ provider_failed = {}
    /\ finput = <<>>
    /\ foutput = <<>>
    /\ use_free_search = (engine = "free")
    /\ serpapi_key = (engine = "serpapi")
    /\ init_error = "none"
    /\ AnalyzerIdle

\* batch_search: the for loop takes the next query and calls search_query
NextQuery ==
    /\ pc = "loop"
    /\ i < Len(queries)
    /\ i' = i + 1
    /\ pc' = "exec"
    /\ attempt' = 0
    /\ calls' = 0
    /\ UNCHANGED <<main_vars, analyzer_vars, engine, google_available, all_results, queries, provider_calls, slept,
                   last_outcome, query_result, results, search_count,
                   provider_failed, finput, foutput>>

\* _execute_search: the provider call of this attempt raises; either the
\* backoff sleep and the next attempt, or the re-raise that search_query
\* turns into an error record, which batch_search appends
SerpRaise ==
    /\ engine = "serpapi"
    /\ pc = "exec"
    /\ calls' = calls + 1
    /\ provider_calls' = provider_calls + 1
    /\ last_outcome' = "raise"
    /\ IF attempt < MAX_RETRIES - 1
       THEN /\ slept' = 2 ^ attempt
            /\ attempt' = attempt + 1
            /\ UNCHANGED <<pc, query_result, results, provider_failed>>
       ELSE LET r == create_error_result(queries[i].search_query, TransportError)
            IN  /\ slept' = 0
                /\ query_result' = <<r>>
                /\ results' = Append(results, batch_record(queries[i], r))
                /\ provider_failed' = provider_failed \cup {i}
                /\ pc' = "loop"
                /\ UNCHANGED attempt
    /\ UNCHANGED <<main_vars, analyzer_vars, engine, google_available, all_results, queries, i, search_count,
                   finput, foutput>>

\* _execute_search returns a response; search_query analyses and filters it,
\* sleeps SEARCH_DELAY and counts on the success path only, and batch_search
\* appends the record
SerpReturn ==
    /\ engine = "serpapi"
    /\ pc = "exec"
    /\ \E resp \in Responses :
        LET r == search_query(queries[i].search_query, resp)
        IN  /\ query_result' = <<r>>
            /\ all_results' = raw_hits(resp)
            /\ slept' = IF IsQueryResult(r) THEN SEARCH_DELAY ELSE 0
            /\ search_count' = IF IsQueryResult(r) THEN search_count + 1
                               ELSE search_count
            /\ results' = Append(results, batch_record(queries[i], r))
            /\ last_outcome' = ResponseKind(resp)
    /\ calls' = calls + 1
    /\ provider_calls' = provider_calls + 1
    /\ pc' = "loop"
    /\ UNCHANGED <<main_vars, analyzer_vars, engine, google_available, queries, i, attempt,
                   provider_failed, finput, foutput>>

\* FreeSearchEngine.search_query with googlesearch installed: one call of
\* google_search, which raises (swallowed) or yields URLs
FreeGoogle ==
    /\ engine = "free"
    /\ pc = "exec"
    /\ google_available
    /\ \E outcome \in {<<"raise", <<>> >>} \cup {<<"returned", u>> : u \in GoogleUrls},
          jitter \in Jitter :
        LET google_results == IF outcome[1] = "raise" THEN <<>>
                              ELSE search_google_simple(outcome[2])
            r == free_search_query(queries[i].search_query, google_results)
        IN  /\ query_result' = <<r>>
            /\ all_results' = collect_results(google_results)
            /\ slept' = IF IsQueryResult(r) THEN SEARCH_DELAY + jitter ELSE 0
            /\ search_count' = IF IsQueryResult(r) THEN search_count + 1
                               ELSE search_count
            /\ results' = Append(results, free_batch_record(queries[i], r))
            /\ last_outcome' = outcome[1]
            /\ provider_failed' = IF outcome[1] = "raise"
                                  THEN provider_failed \cup {i}
                                  ELSE provider_failed
    /\ calls' = calls + 1
    /\ provider_calls' = provider_calls + 1
    /\ pc' = "loop"
    /\ UNCHANGED <<main_vars, analyzer_vars, engine, google_available, queries, i, attempt,
                   finput, foutput>>

\* FreeSearchEngine.search_query without googlesearch: fallback hits only,
\* no provider call
FreeFallback ==
    /\ engine = "free"
    /\ pc = "exec"
    /\ ~google_available
    /\ \E jitter \in Jitter :
        LET r == free_search_query(queries[i].search_query, <<>>)
        IN  /\ query_result' = <<r>>
            /\ all_results' = collect_results(<<>>)
            /\ slept' = IF IsQueryResult(r) THEN slept + SEARCH_DELAY + jitter
                        ELSE slept
            /\ search_count' = IF IsQueryResult(r) THEN search_count + 1
                               ELSE search_count
            /\ results' = Append(results, free_batch_record(queries[i], r))
    /\ pc' = "loop"
    /\ UNCHANGED <<main_vars, analyzer_vars, engine, google_available, queries, i, attempt, calls,
                   provider_calls, last_outcome, provider_failed,
                   finput, foutput>>

\* batch_search returns the collected records
Finish ==
    /\ pc = "loop"
    /\ i = Len(queries)
    /\ pc' = "done"
    /\ UNCHANGED <<batch_vars, finput, foutput>>

Next ==
    \/ NextQuery
    \/ SerpRaise
    \/ SerpReturn
    \/ FreeGoogle
    \/ FreeFallback
    \/ Finish

Spec == Init /\ [][Next]_vars

\* ------------------------------- ManufacturingDataCollector.__init__
\* mutant: the constructor accepts a missing key
SearchEngineInitNoCheck(api_key) == "none"

\* SearchEngine.__init__: ValueError when neither argument nor SERPAPI_KEY
\* gives a key
SearchEngineInit(api_key) == IF api_key THEN "none" ELSE "ValueError"

InitMain ==
    /\ engine = "none"
    /\ google_available \in BOOLEAN
    /\ queries \in QueryBatches
    /\ i = 0
    /\ pc = "start"
    /\ attempt = 0
    /\ calls = 0
    /\ provider_calls = 0
    /\ slept = 0
    /\ last_outcome = "none"
    /\ query_result = <<>>
    /\ results = <<>>
    /\ search_count = 0
    /\ all_results = <<>>
    /\ provider_failed = {}
    /\ finput = <<>>
    /\ foutput = <<>>
    /\ use_free_search \in BOOLEAN
    /\ serpapi_key \in BOOLEAN
    /\ init_error = "none"
    /\ AnalyzerIdle

\* the free engine when asked for; else SearchEngine(), and on any exception
\* of its constructor the free engine after a warning
Construct ==
    /\ pc = "start"
    /\ IF use_free_search
       THEN engine' = "free" /\ init_error' = "none"
       ELSE /\ init_error' = SearchEngineInit(serpapi_key)
            /\ engine' = IF init_error' = "none" THEN "serpapi" ELSE "free"
    /\ pc' = "loop"
    /\ UNCHANGED <<analyzer_vars, use_free_search, serpapi_key,
                   google_available, all_results, queries, i, attempt, calls,
                   provider_calls, slept, last_outcome, query_result,
                   results, search_count, provider_failed, finput, foutput>>

NextMain ==
    \/ Construct
    \/ NextQuery
    \/ SerpRaise
    \/ SerpReturn
    \/ FreeGoogle
    \/ FreeFallback
    \/ Finish

SpecMain == InitMain /\ [][NextMain]_vars

\* ------------------------------------- scraper SearchEngine.search_google
ScraperHits == {[k \in 1..n |-> Hit("distinct", k)] : n \in 0..MaxFewHits}

\* the processed_results of one response
processed_results(organic, query) ==
    [k \in 1..Len(organic) |->
        [url |-> organic[k].link, domain |-> organic[k].netloc,
         query |-> query]]

InitScraper ==
    /\ engine = "scraper"
    /\ google_available = FALSE
    /\ queries \in {[k \in 1..n |-> [search_query |-> "query " \o ToString(k)]] :
                      n \in 0..MaxQueries}
    /\ i = 0
    /\ pc = "loop"
    /\ attempt = 0
    /\ calls = 0
    /\ provider_calls = 0
    /\ slept = 0
    /\ last_outcome = "none"
    /\ query_result = <<>>
    /\ results = <<>>
    /\ search_count = 0
    /\ all_results = <<>>
    /\ provider_failed = {}
    /\ finput = <<>>
    /\ foutput = <<>>
    /\ use_free_search = FALSE
    /\ serpapi_key = FALSE
    /\ init_error = "none"
    /\ AnalyzerIdle

\* the attempt raises: backoff sleep and next attempt, or after the last
\* attempt return [] to search_domain_queries
ScraperRaise ==
    /\ engine = "scraper"
    /\ pc = "exec"
    /\ calls' = calls + 1
    /\ provider_calls' = provider_calls + 1
    /\ last_outcome' = "raise"
    /\ IF attempt < MAX_RETRIES - 1
       THEN /\ slept' = 2 ^ attempt
            /\ attempt' = attempt + 1
            /\ UNCHANGED <<pc, provider_failed>>
       ELSE /\ slept' = 0
            /\ provider_failed' = provider_failed \cup {i}
            /\ pc' = "loop"
            /\ UNCHANGED attempt
    /\ UNCHANGED <<main_vars, analyzer_vars, engine, google_available, all_results, queries, i, query_result,
                   results, search_count, finput, foutput>>

\* the attempt returns a response without "organic_results": nothing is
\* raised, so the for loop goes straight to the next attempt, and past the
\* last attempt to the final return []
ScraperNoHitList ==
    /\ engine = "scraper"
    /\ pc = "exec"
    /\ calls' = calls + 1
    /\ provider_calls' = provider_calls + 1
    /\ last_outcome' = "no_hit_list"
    /\ slept' = 0
    /\ IF attempt < MAX_RETRIES - 1
       THEN /\ attempt' = attempt + 1
            /\ UNCHANGED <<pc, provider_failed>>
       ELSE /\ provider_failed' = provider_failed \cup {i}
            /\ pc' = "loop"
            /\ UNCHANGED attempt
    /\ UNCHANGED <<main_vars, analyzer_vars, engine, google_available, all_results, queries, i, query_result,
                   results, search_count, finput, foutput>>

\* the attempt returns organic results: processed, sleep SEARCH_DELAY,
\* returned and added to all_results
ScraperReturn ==
    /\ engine = "scraper"
    /\ pc = "exec"
    /\ \E organic \in ScraperHits :
        results' = results \o processed_results(organic, queries[i].search_query)
    /\ calls' = calls + 1
    /\ provider_calls' = provider_calls + 1
    /\ last_outcome' = "hits"
    /\ slept' = SEARCH_DELAY
    /\ pc' = "loop"
    /\ UNCHANGED <<main_vars, analyzer_vars, engine, google_available, all_results, queries, i, attempt,
                   query_result, search_count, provider_failed,
                   finput, foutput>>

NextScraper ==
    \/ NextQuery
    \/ ScraperRaise
    \/ ScraperNoHitList
    \/ ScraperReturn
    \/ Finish

SpecScraper == InitScraper /\ [][NextScraper]_vars

\* ----------------------------------------------- filter specification
Hosts == {"a.in", "b.in", "c.in"}
RelevanceValues == {29, 30, 60}
ConfidenceValues == {50, 80}

\* analysis records handed to the filter; url tells the records apart
FilterRecords(k) ==
    {[url |-> k, domain |-> d, relevance_score |-> r, confidence_score |-> c] :
        d \in Hosts, r \in RelevanceValues, c \in ConfidenceValues}

InitFilter ==
    /\ engine = "filter"
    /\ google_available = FALSE
    /\ queries = <<>>
    /\ i = 0
    /\ pc = "input"
    /\ attempt = 0
    /\ calls = 0
    /\ provider_calls = 0
    /\ slept = 0
    /\ last_outcome = "none"
    /\ query_result = <<>>
    /\ results = <<>>
    /\ search_count = 0
    /\ all_results = <<>>
    /\ provider_failed = {}
    /\ finput = <<>>
    /\ foutput = <<>>
    /\ use_free_search = FALSE
    /\ serpapi_key = FALSE
    /\ init_error = "none"
    /\ AnalyzerIdle

FilterCall ==
    /\ pc = "input"
    /\ foutput' = filter_results(finput)
    /\ pc' = "filtered"
    /\ UNCHANGED <<batch_vars, finput>>

\* the caller collects one more analysis record before filtering
FilterInput ==
    /\ pc = "input"
    /\ Len(finput) < MaxLen
    /\ \E r \in FilterRecords(Len(finput) + 1) : finput' = Append(finput, r)
    /\ UNCHANGED <<batch_vars, pc, foutput>>

NextFilter == FilterInput \/ FilterCall

SpecFilter == InitFilter /\ [][NextFilter]_vars

\* --------------------------------------------------------- filter claims
Passing == {k \in 1..Len(finput) : finput[k].relevance_score >= min_relevance}
PassingOf(d) == {k \in Passing : finput[k].domain = d}
OutOf(d) == {j \in 1..Len(foutput) : foutput[j].domain = d}

\* the passing record of domain d the filter is to keep: highest confidence,
\* earliest in input order among equals
BestOf(d) ==
    CHOOSE k \in PassingOf(d) :
        \A m \in PassingOf(d) :
            \/ finput[m].confidence_score < finput[k].confidence_score
            \/ finput[m].confidence_score = finput[k].confidence_score /\ k <= m

FirstOf(d) == CHOOSE k \in PassingOf(d) : \A m \in PassingOf(d) : k <= m

\* C7 (as stated): of the passing records of one domain exactly one is in
\* the output, and it is the first of them in input order
C7_KeepsFirstByInputOrder ==
    pc = "filtered" =>
        \A d \in Hosts : PassingOf(d) # {} =>
            /\ Cardinality(OutOf(d)) = 1
            /\ \A j \in OutOf(d) : foutput[j] = finput[FirstOf(d)]

\* C7 (amended): of the passing records of one domain exactly one is in the
\* output, and it is the one with the highest confidence_score, the first in
\* input order among those of equal score
C7_KeepsBestPerDomain ==
    pc = "filtered" =>
        \A d \in Hosts : PassingOf(d) # {} =>
            /\ Cardinality(OutOf(d)) = 1
            /\ \A j \in OutOf(d) : foutput[j] = finput[BestOf(d)]

C7_Witness ==
    /\ pc = "filtered"
    /\ \E d \in Hosts :
        /\ Cardinality(PassingOf(d)) >= 2
        /\ BestOf(d) # FirstOf(d)
        /\ \E j \in OutOf(d) : foutput[j] = finput[BestOf(d)]

\* position in the input of the j-th output record
InPos(j) == CHOOSE k \in 1..Len(finput) : finput[k] = foutput[j]

\* C8: the filter output is sorted by confidence_score descending, and
\* output records of equal confidence_score keep their input order
C8_SortedStable ==
    pc = "filtered" =>
        \A a, b \in 1..Len(foutput) : a < b =>
            /\ foutput[a].confidence_score >= foutput[b].confidence_score
            /\ foutput[a].confidence_score = foutput[b].confidence_score
                 => InPos(a) < InPos(b)

C8_Witness ==
    /\ pc = "filtered"
    /\ \E a, b, c \in 1..Len(foutput) :
        /\ a < b /\ b < c
        /\ foutput[a].confidence_score > foutput[b].confidence_score
        /\ foutput[b].confidence_score = foutput[c].confidence_score
        /\ InPos(a) > InPos(c)
        /\ InPos(b) < InPos(c)

\* C9 (as stated): no record below the configured minimum is in the output,
\* a record exactly at the minimum is not dropped, and the minimum applied is
\* the configuration's RELEVANCE_THRESHOLD
C9_ThresholdIsConfigured ==
    pc = "filtered" =>
        /\ \A j \in 1..Len(foutput) :
               foutput[j].relevance_score >= RELEVANCE_THRESHOLD
        /\ \A k \in 1..Len(finput) :
               finput[k].relevance_score >= RELEVANCE_THRESHOLD
                   => OutOf(finput[k].domain) # {}


\* ---------------------------------------------------------- batch claims
StatusValues == {"success", "error", "no_results"}
AllRecords == {results[j] : j \in 1..Len(results)}
                \cup {query_result[j] : j \in 1..Len(query_result)}

\* C1 (as stated): batch_search of the SerpAPI engine returns one record per
\* query; the record of a query is an error record carrying the message
\* exactly when its provider call failed on every attempt, and otherwise a
\* success or no_results record (a record without status counted as success)
C1_BatchIsolation ==
    (engine = "serpapi" /\ pc = "done") =>
        /\ Len(results) = Len(queries)
        /\ \A j \in 1..Len(results) :
            IF j \in provider_failed
            THEN /\ Get(results[j], "status", "success") = "error"
                 /\ "error_message" \in DOMAIN results[j]
            ELSE Get(results[j], "status", "success") \in {"success", "no_results"}

\* C2 (as stated): every record of search_query and batch_search carries a
\* status field with one of the three values
C2_StatusField ==
    \A r \in AllRecords :
        "status" \in DOMAIN r /\ r.status \in StatusValues

\* C3 (as stated): when the provider returns zero raw hits (no response, no
\* hit list, empty hit list) search_query returns a no_results record with
\* an empty results list
C3_ZeroHitsNoResults ==
    (engine = "serpapi"
       /\ last_outcome \in {"none", "no_hit_list", "empty_hit_list"}) =>
        \A j \in 1..Len(query_result) :
            /\ Get(query_result[j], "status", "missing") = "no_results"
            /\ query_result[j].results = <<>>

\* C4 (as stated): batch_search returns one record per query, in input
\* order, each carrying the query_id of its query
C4_OneRecordPerQuery ==
    pc = "done" =>
        /\ Len(results) = Len(queries)
        /\ \A j \in 1..Len(results) :
            /\ results[j].query = queries[j].search_query
            /\ "query_id" \in DOMAIN results[j]
            /\ results[j].query_id = queries[j].query_id

Failed(outcome) == outcome \in {"raise", "no_hit_list"}

\* C5 (as stated): at most MAX_RETRIES provider calls per query; a further
\* attempt is made only after a failed one and after a backoff sleep of
\* 2^(k-1) seconds; after the failure of the last attempt control goes back
\* to the caller with no sleep and no call
C5_RetryProtocol ==
    [][(calls' = calls + 1) =>
          /\ calls' <= MAX_RETRIES
          /\ calls >= 1 => (Failed(last_outcome) /\ slept = 2 ^ (calls - 1))
          /\ (calls' = MAX_RETRIES /\ Failed(last_outcome'))
                => (pc' = "loop" /\ slept' = 0)]_vars

\* C6 (as stated): the first provider call of a query comes at least
\* SEARCH_DELAY after the last provider call of the query before it
C6_DelayBetweenQueries ==
    [][(provider_calls' = provider_calls + 1 /\ calls = 0 /\ provider_calls > 0)
          => slept >= SEARCH_DELAY]_vars

\* C10: the results list of every record has at most max_results entries,
\* RESULTS_PER_QUERY for the SerpAPI engine and min(RESULTS_PER_QUERY, 10)
\* for the free engine
C10_ResultsBounded ==
    \A r \in AllRecords :
        Len(r.results) <= (IF engine = "serpapi" THEN RESULTS_PER_QUERY
                           ELSE free_max_results)

C10_Witness ==
    /\ engine = "serpapi"
    /\ \E j \in 1..Len(results) :
        /\ results[j].total_results > RESULTS_PER_QUERY
        /\ Len(results[j].results) = RESULTS_PER_QUERY

\* ------------------------------------------------ DataSourceAnalyzer
\* Text is a sequence of one-character strings. Scores are hundredths.
Space == <<" ">>

UpperCase == <<"A", "B", "C", "D", "E", "F", "G", "H", "I", "J", "K", "L",
               "M", "N", "O", "P", "Q", "R", "S", "T", "U", "V", "W", "X",
               "Y", "Z">>

LowerCase == <<"a", "b", "c", "d", "e", "f", "g", "h", "i", "j", "k", "l",
               "m", "n", "o", "p", "q", "r", "s", "t", "u", "v", "w", "x",
               "y", "z">>

\* str.lower() on the ASCII letters
LowerOf ==
    ("A" :> "a")
    @@ ("B" :> "b")
    @@ ("C" :> "c")
    @@ ("D" :> "d")
    @@ ("E" :> "e")
    @@ ("F" :> "f")
    @@ ("G" :> "g")
    @@ ("H" :> "h")
    @@ ("I" :> "i")
    @@ ("J" :> "j")
    @@ ("K" :> "k")
    @@ ("L" :> "l")
    @@ ("M" :> "m")
    @@ ("N" :> "n")
    @@ ("O" :> "o")
    @@ ("P" :> "p")
    @@ ("Q" :> "q")
    @@ ("R" :> "r")
    @@ ("S" :> "s")
    @@ ("T" :> "t")
    @@ ("U" :> "u")
    @@ ("V" :> "v")
    @@ ("W" :> "w")
    @@ ("X" :> "x")
    @@ ("Y" :> "y")
    @@ ("Z" :> "z")

LowerChar(c) == IF c \in DOMAIN LowerOf THEN LowerOf[c] ELSE c

Lower(s) == [k \in 1..Len(s) |-> LowerChar(s[k])] \o <<>>

Digits == <<"0", "1", "2", "3", "4", "5", "6", "7", "8", "9">>

IsDigit(c) == c \in {Digits[k] : k \in 1..Len(Digits)}

DigitValue(c) == (CHOOSE k \in 1..Len(Digits) : Digits[k] = c) - 1

\* pat in text
Contains(text, pat) ==
    \E k \in 1..(Len(text) - Len(pat) + 1) :
        SubSeq(text, k, k + Len(pat) - 1) = pat

\* any(p in text for p in pats)
AnyIn(text, pats) == \E p \in 1..Len(pats) : Contains(text, pats[p])

\* sum(1 for p in pats if p in text)
CountIn(text, pats) ==
    Cardinality({p \in 1..Len(pats) : Contains(text, pats[p])})

\* f"{a} {b}"
Join(a, b) == a \o Space \o b

\* int(match) of a run of digits
RECURSIVE IntOf(_)
IntOf(ds) ==
    IF ds = <<>> THEN 0
    ELSE 10 * IntOf(SubSeq(ds, 1, Len(ds) - 1)) + DigitValue(ds[Len(ds)])

\* where the maximal runs of digits start
RunStarts(text) ==
    {k \in 1..Len(text) :
        IsDigit(text[k]) /\ (k = 1 \/ ~IsDigit(text[k - 1]))}

\* the last place of the run that starts at s
RunEnd(text, s) ==
    CHOOSE e \in s..Len(text) :
        /\ \A k \in s..e : IsDigit(text[k])
        /\ (e = Len(text) \/ ~IsDigit(text[e + 1]))

\* [int(m) for m in re.findall(r'\d+', text)]: the maximal digit runs, in
\* the order of the text
FindNumbers(text) ==
    LET starts == RunStarts(text)
        nth(n) == CHOOSE s \in starts :
                      Cardinality({t \in starts : t < s}) = n - 1
    IN  [n \in 1..Cardinality(starts) |->
            IntOf(SubSeq(text, nth(n), RunEnd(text, nth(n))))]

\* mutant: the filter drops the numbers from 2000 on
ReasonableNumbersBelowYears(text) ==
    SelectSeq(FindNumbers(text),
              LAMBDA num : 10 <= num /\ num < 2000)

\* the numbers kept as company/data counts
ReasonableNumbers(text) ==
    SelectSeq(FindNumbers(text),
              LAMBDA num : 10 <= num /\ num <= 100000)

\* max(numbers)
MaxOf(numbers) ==
    CHOOSE x \in {numbers[k] : k \in 1..Len(numbers)} :
        \A k \in 1..Len(numbers) : numbers[k] <= x

\* CPython's round(x, 2) at the exact ties of the relevance sum: the
\* hundredths at which the float sum lies above the tie
FloatTieUp == {32, 63, 67, 73, 87}

\* round to the nearest integer of N / D, ties as CPython rounds them
RoundHalf(N, D) ==
    LET f == N \div D
        r == N % D
    IN  IF 2 * r < D THEN f
        ELSE IF 2 * r > D THEN f + 1
        ELSE IF f \in FloatTieUp THEN f + 1 ELSE f

\* urlparse(url).netloc: what follows "//" up to the next "/", "?" or "#"
NetlocStart(url) ==
    IF \E k \in 1..(Len(url) - 1) : url[k] = "/" /\ url[k + 1] = "/"
    THEN 2 + CHOOSE k \in 1..(Len(url) - 1) :
                 /\ url[k] = "/" /\ url[k + 1] = "/"
                 /\ \A m \in 1..(k - 1) : ~(url[m] = "/" /\ url[m + 1] = "/")
    ELSE 0

SchemeChars == {"+", "-", "."} \cup {UpperCase[k] : k \in 1..26}
                  \cup {LowerCase[k] : k \in 1..26}
                  \cup {Digits[k] : k \in 1..10}

\* the "//" opens the netloc when it starts the url or follows "scheme:"
HasNetloc(url) ==
    LET s == NetlocStart(url)
    IN  \/ s = 3
        \/ /\ s > 4
           /\ url[s - 3] = ":"
           /\ \A m \in 1..(s - 4) : url[m] \in SchemeChars
           /\ ~IsDigit(url[1]) /\ url[1] \notin {"+", "-", "."}

Netloc(url) ==
    IF ~HasNetloc(url) THEN <<>>
    ELSE LET s == NetlocStart(url)
             stops == {k \in s..Len(url) : url[k] \in {"/", "?", "#"}}
             e == IF stops = {} THEN Len(url) + 1
                  ELSE CHOOSE k \in stops : \A m \in stops : k <= m
         IN  SubSeq(url, s, e - 1)

DocumentTypes ==
    {"PDF", "Excel", "Web Page", "API", "Database", "Directory", "Unknown"}

ExtractionMethods ==
    {"Manual Download", "Web Scraping", "API Call", "Form Submission",
     "Paid Access", "Registration Required", "Not Accessible"}

Chemical_Petrochemical == <<
    <<"c", "h", "e", "m", "i", "c", "a", "l">>,
    <<"p", "e", "t", "r", "o", "c", "h", "e", "m", "i", "c", "a", "l">>,
    <<"p", "h", "a", "r", "m", "a", "c", "e", "u", "t", "i", "c", "a", "l">>,
    <<"p", "o", "l", "y", "m", "e", "r">>,
    <<"f", "e", "r", "t", "i", "l", "i", "z", "e", "r">>,
    <<"r", "e", "f", "i", "n", "e", "r", "y">>,
    <<"c", "h", "e", "m", "i", "c", "a", "l", "s">>,
    <<"p", "h", "a", "r", "m", "a">>,
    <<"c", "o", "a", "t", "i", "n", "g">>,
    <<"p", "a", "i", "n", "t">>,
    <<"r", "e", "s", "i", "n">>,
    <<"c", "a", "t", "a", "l", "y", "s", "t">>,
    <<"s", "p", "e", "c", "i", "a", "l", "t", "y", " ", "c", "h", "e",
      "m", "i", "c", "a", "l", "s">>,
    <<"f", "i", "n", "e", " ", "c", "h", "e", "m", "i", "c", "a", "l", "s">>,
    <<"b", "u", "l", "k", " ", "c", "h", "e", "m", "i", "c", "a", "l", "s">>,
    <<"a", "g", "r", "o", "c", "h", "e", "m", "i", "c", "a", "l", "s">> >>

Shipping == <<
    <<"s", "h", "i", "p", "p", "i", "n", "g">>,
    <<"l", "o", "g", "i", "s", "t", "i", "c", "s">>,
    <<"m", "a", "r", "i", "t", "i", "m", "e">>,
    <<"p", "o", "r", "t">>,
    <<"c", "a", "r", "g", "o">>,
    <<"f", "r", "e", "i", "g", "h", "t">>,
    <<"v", "e", "s", "s", "e", "l">>,
    <<"c", "o", "n", "t", "a", "i", "n", "e", "r">>,
    <<"m", "a", "r", "i", "n", "e">>,
    <<"t", "r", "a", "n", "s", "p", "o", "r", "t">>,
    <<"s", "u", "p", "p", "l", "y", " ", "c", "h", "a", "i", "n">>,
    <<"w", "a", "r", "e", "h", "o", "u", "s", "i", "n", "g">>,
    <<"f", "o", "r", "w", "a", "r", "d", "i", "n", "g">>,
    <<"c", "u", "s", "t", "o", "m", "s">>,
    <<"i", "m", "p", "o", "r", "t">>,
    <<"e", "x", "p", "o", "r", "t">>,
    <<"f", "l", "e", "e", "t">> >>

Sports_Equipment == <<
    <<"s", "p", "o", "r", "t", "s">>,
    <<"f", "i", "t", "n", "e", "s", "s">>,
    <<"a", "t", "h", "l", "e", "t", "i", "c", "s">>,
    <<"e", "q", "u", "i", "p", "m", "e", "n", "t">>,
    <<"g", "e", "a", "r">>,
    <<"r", "e", "c", "r", "e", "a", "t", "i", "o", "n">>,
    <<"s", "p", "o", "r", "t", "i", "n", "g", " ", "g", "o", "o", "d", "s">>,
    <<"e", "x", "e", "r", "c", "i", "s", "e">>,
    <<"o", "u", "t", "d", "o", "o", "r">>,
    <<"g", "a", "m", "e", "s">>,
    <<"g", "y", "m", "n", "a", "s", "i", "u", "m">>,
    <<"p", "l", "a", "y", "g", "r", "o", "u", "n", "d">>,
    <<"c", "r", "i", "c", "k", "e", "t">>,
    <<"f", "o", "o", "t", "b", "a", "l", "l">>,
    <<"b", "a", "d", "m", "i", "n", "t", "o", "n">>,
    <<"t", "e", "n", "n", "i", "s">>,
    <<"h", "o", "c", "k", "e", "y">> >>

EdTech == <<
    <<"e", "d", "t", "e", "c", "h">>,
    <<"e", "d", "u", "c", "a", "t", "i", "o", "n">>,
    <<"l", "e", "a", "r", "n", "i", "n", "g">>,
    <<"e", "-", "l", "e", "a", "r", "n", "i", "n", "g">>,
    <<"d", "i", "g", "i", "t", "a", "l", " ", "e", "d", "u", "c", "a",
      "t", "i", "o", "n">>,
    <<"e", "d", "u", "c", "a", "t", "i", "o", "n", "a", "l", " ", "t",
      "e", "c", "h", "n", "o", "l", "o", "g", "y">>,
    <<"o", "n", "l", "i", "n", "e", " ", "l", "e", "a", "r", "n", "i",
      "n", "g">>,
    <<"t", "r", "a", "i", "n", "i", "n", "g">>,
    <<"l", "m", "s">>,
    <<"m", "o", "o", "c">>,
    <<"v", "i", "r", "t", "u", "a", "l", " ", "c", "l", "a", "s", "s",
      "r", "o", "o", "m">>,
    <<"e", "d", "u", "c", "a", "t", "i", "o", "n", "a", "l", " ", "s",
      "o", "f", "t", "w", "a", "r", "e">>,
    <<"l", "e", "a", "r", "n", "i", "n", "g", " ", "m", "a", "n", "a",
      "g", "e", "m", "e", "n", "t">> >>

domain_keywords ==
    [Chemical_Petrochemical |-> Chemical_Petrochemical,
     Shipping |-> Shipping,
     Sports_Equipment |-> Sports_Equipment,
     EdTech |-> EdTech]

high_quality == <<
    <<"d", "a", "t", "a", "b", "a", "s", "e">>,
    <<"d", "i", "r", "e", "c", "t", "o", "r", "y">>,
    <<"l", "i", "s", "t">>,
    <<"r", "e", "g", "i", "s", "t", "r", "y">>,
    <<"a", "s", "s", "o", "c", "i", "a", "t", "i", "o", "n">>,
    <<"g", "o", "v", "e", "r", "n", "m", "e", "n", "t">>,
    <<"o", "f", "f", "i", "c", "i", "a", "l">>,
    <<"c", "e", "r", "t", "i", "f", "i", "e", "d">>,
    <<"v", "e", "r", "i", "f", "i", "e", "d">>,
    <<"c", "o", "m", "p", "r", "e", "h", "e", "n", "s", "i", "v", "e">> >>

contact_data == <<
    <<"e", "m", "a", "i", "l">>,
    <<"p", "h", "o", "n", "e">>,
    <<"c", "o", "n", "t", "a", "c", "t">>,
    <<"a", "d", "d", "r", "e", "s", "s">>,
    <<"d", "e", "t", "a", "i", "l", "s">>,
    <<"d", "i", "r", "e", "c", "t", "o", "r", "y">> >>

india_keywords == <<
    <<"i", "n", "d", "i", "a">>,
    <<"i", "n", "d", "i", "a", "n">>,
    <<"b", "h", "a", "r", "a", "t", "h">>,
    <<"b", "h", "a", "r", "a", "t">> >>

\* DataSourceAnalyzer.__init__: the fields that the methods read
NewAnalyzer ==
    [domain_keywords |-> domain_keywords,
     quality_indicators |->
         [high_quality |-> high_quality, contact_data |-> contact_data]]

\* mutant: a call uses up the keyword lists
self_after_call_keywords_used(self) ==
    [self EXCEPT !.domain_keywords = [d \in DOMAIN @ |-> <<>>]]

\* the analyzer's fields after analyze_search_result: no method assigns one
self_after_call(self) == self

PdfPatterns == <<
    <<".", "p", "d", "f">>,
    <<"p", "d", "f">> >>

ExcelPatterns == <<
    <<".", "x", "l", "s", "x">>,
    <<".", "x", "l", "s">>,
    <<"e", "x", "c", "e", "l">> >>

ApiPatterns == <<
    <<"a", "p", "i">>,
    <<"j", "s", "o", "n">>,
    <<"x", "m", "l">> >>

DatabasePatterns == <<
    <<"d", "a", "t", "a", "b", "a", "s", "e">>,
    <<"d", "b">> >>

DirectoryPatterns == <<
    <<"d", "i", "r", "e", "c", "t", "o", "r", "y">>,
    <<"l", "i", "s", "t", "i", "n", "g">> >>

\* mutant: the Directory group is tested first
determine_document_type_directory_first(url, title, snippet) ==
    LET text == Lower(Join(Join(url, title), snippet))
    IN  IF AnyIn(text, DirectoryPatterns) THEN "Directory"
        ELSE IF AnyIn(text, PdfPatterns) THEN "PDF"
        ELSE IF AnyIn(text, ExcelPatterns) THEN "Excel"
        ELSE IF AnyIn(text, ApiPatterns) THEN "API"
        ELSE IF AnyIn(text, DatabasePatterns) THEN "Database"
        ELSE "Web Page"

determine_document_type(url, title, snippet) ==
    LET text == Lower(Join(Join(url, title), snippet))
    IN  IF AnyIn(text, PdfPatterns) THEN "PDF"
        ELSE IF AnyIn(text, ExcelPatterns) THEN "Excel"
        ELSE IF AnyIn(text, ApiPatterns) THEN "API"
        ELSE IF AnyIn(text, DatabasePatterns) THEN "Database"
        ELSE IF AnyIn(text, DirectoryPatterns) THEN "Directory"
        ELSE "Web Page"

\* mutant: no neutral score, an empty keyword list scores 0
keyword_score_no_neutral(text, keywords) ==
    IF Len(keywords) = 0 THEN <<0, 2>>
    ELSE <<Min(CountIn(text, keywords), Len(keywords)), Len(keywords)>>

\* keyword_score as a fraction <<numerator, denominator>>
keyword_score(text, keywords) ==
    IF Len(keywords) = 0 THEN <<1, 2>>
    ELSE <<Min(CountIn(text, keywords), Len(keywords)), Len(keywords)>>

\* mutant: quality_matches / 3 without the clip
quality_score_unclipped(text) ==
    CountIn(text, analyzer_self.quality_indicators.high_quality)

\* quality_score in thirds: min(quality_matches / 3, 1.0)
quality_score(text) ==
    Min(CountIn(text, analyzer_self.quality_indicators.high_quality), 3)

\* india_score in hundredths
india_score(text) == IF AnyIn(text, india_keywords) THEN 100 ELSE 30

\* round(keyword_score*0.5 + quality_score*0.3 + india_score*0.2, 2)
calculate_relevance(title, snippet, domain) ==
    LET text == Lower(Join(title, snippet))
        ks == keyword_score(text,
                  Get(analyzer_self.domain_keywords, domain, <<>>))
        N == 50 * ks[1]
               + ks[2] * (10 * quality_score(text) + india_score(text) \div 5)
    IN  RoundHalf(N, ks[2])

base_estimates ==
    [d \in DocumentTypes |->
        CASE d = "PDF" -> <<100, 8>>
          [] d = "Excel" -> <<500, 12>>
          [] d = "Web Page" -> <<50, 6>>
          [] d = "API" -> <<1000, 15>>
          [] d = "Database" -> <<2000, 20>>
          [] d = "Directory" -> <<300, 10>>
          [] d = "Unknown" -> <<50, 5>>]

ExtensiveWords == <<
    <<"c", "o", "m", "p", "r", "e", "h", "e", "n", "s", "i", "v", "e">>,
    <<"c", "o", "m", "p", "l", "e", "t", "e">>,
    <<"a", "l", "l">>,
    <<"e", "n", "t", "i", "r", "e">>,
    <<"f", "u", "l", "l">> >>

TopWords == <<
    <<"t", "o", "p">>,
    <<"m", "a", "j", "o", "r">>,
    <<"l", "e", "a", "d", "i", "n", "g">> >>

StateNames == <<
    <<"g", "u", "j", "a", "r", "a", "t">>,
    <<"m", "a", "h", "a", "r", "a", "s", "h", "t", "r", "a">>,
    <<"t", "a", "m", "i", "l", " ", "n", "a", "d", "u">>,
    <<"k", "a", "r", "n", "a", "t", "a", "k", "a">> >>

\* mutant: the state factor is applied before the cap
adjust_rows_cap_last(text, base_rows) ==
    LET r1 == IF AnyIn(text, ExtensiveWords) THEN 3 * base_rows
              ELSE base_rows
        r2 == IF AnyIn(text, StateNames) THEN (7 * r1) \div 10 ELSE r1
    IN  IF AnyIn(text, TopWords) THEN Min(r2, 200) ELSE r2

\* the three adjustments of the base rows, in the code's order
adjust_rows(text, base_rows) ==
    LET r1 == IF AnyIn(text, ExtensiveWords) THEN 3 * base_rows
              ELSE base_rows
        r2 == IF AnyIn(text, TopWords) THEN Min(r1, 200) ELSE r1
    IN  IF AnyIn(text, StateNames) THEN (7 * r2) \div 10 ELSE r2

\* mutant: the smallest reasonable number is used
override_rows_smallest(numbers, rows) ==
    IF numbers # <<>>
    THEN CHOOSE x \in {numbers[k] : k \in 1..Len(numbers)} :
             \A k \in 1..Len(numbers) : x <= numbers[k]
    ELSE rows

\* the explicit count, when there is one, replaces the adjusted rows
override_rows(numbers, rows) ==
    IF numbers # <<>> THEN MaxOf(numbers) ELSE rows

\* mutant: every number of the text counts, whatever its size
estimate_data_size_unfiltered(title, snippet, doc_type) ==
    LET text == Lower(Join(title, snippet))
        numbers == FindNumbers(text)
        base == base_estimates[doc_type]
        fields == IF AnyIn(text, ExtensiveWords) THEN (3 * base[2]) \div 2
                  ELSE base[2]
    IN  <<override_rows(numbers, adjust_rows(text, base[1])), fields>>

\* <<rows, fields>>
estimate_data_size(title, snippet, doc_type) ==
    LET text == Lower(Join(title, snippet))
        numbers == ReasonableNumbers(text)
        base == base_estimates[doc_type]
        fields == IF AnyIn(text, ExtensiveWords) THEN (3 * base[2]) \div 2
                  ELSE base[2]
    IN  <<override_rows(numbers, adjust_rows(text, base[1])), fields>>

RestrictionWords == <<
    <<"l", "o", "g", "i", "n">>,
    <<"r", "e", "g", "i", "s", "t", "e", "r">>,
    <<"s", "u", "b", "s", "c", "r", "i", "p", "t", "i", "o", "n">>,
    <<"p", "r", "e", "m", "i", "u", "m">> >>

\* mutant: "price" is not among the payment words
PaymentWordsWithoutPrice == <<
    <<"p", "a", "i", "d">>,
    <<"p", "u", "r", "c", "h", "a", "s", "e">>,
    <<"b", "u", "y">> >>

PaymentWords == <<
    <<"p", "a", "i", "d">>,
    <<"p", "u", "r", "c", "h", "a", "s", "e">>,
    <<"b", "u", "y">>,
    <<"p", "r", "i", "c", "e">> >>

ApiWord == <<"a", "p", "i">>

\* mutant: the type-based rule for PDF and Excel runs first
determine_extraction_method_type_first(url, title, snippet, doc_type) ==
    LET text == Lower(Join(Join(url, title), snippet))
    IN  IF doc_type \in {"PDF", "Excel"} THEN "Manual Download"
        ELSE IF AnyIn(text, RestrictionWords) THEN "Registration Required"
        ELSE IF AnyIn(text, PaymentWords) THEN "Paid Access"
        ELSE IF doc_type = "API" \/ Contains(text, ApiWord) THEN "API Call"
        ELSE "Web Scraping"

determine_extraction_method(url, title, snippet, doc_type) ==
    LET text == Lower(Join(Join(url, title), snippet))
    IN  IF AnyIn(text, RestrictionWords) THEN "Registration Required"
        ELSE IF AnyIn(text, PaymentWords) THEN "Paid Access"
        ELSE IF doc_type = "API" \/ Contains(text, ApiWord) THEN "API Call"
        ELSE IF doc_type \in {"PDF", "Excel"} THEN "Manual Download"
        ELSE "Web Scraping"

RecentWords == <<
    <<"2", "0", "2", "4">>,
    <<"2", "0", "2", "5">>,
    <<"l", "a", "t", "e", "s", "t">>,
    <<"c", "u", "r", "r", "e", "n", "t">> >>

ModerateWords == <<
    <<"2", "0", "2", "2">>,
    <<"2", "0", "2", "3">> >>

OldWords == <<
    <<"2", "0", "2", "0">>,
    <<"2", "0", "2", "1">> >>

\* mutant: the Old rule runs first
freshness_old_first(title, snippet) ==
    LET text == Lower(Join(title, snippet))
    IN  IF AnyIn(text, OldWords) THEN "Old"
        ELSE IF AnyIn(text, RecentWords) THEN "Recent"
        ELSE IF AnyIn(text, ModerateWords) THEN "Moderate"
        ELSE "Unknown"

\* _extract_metadata, the 'freshness' entry
freshness(title, snippet) ==
    LET text == Lower(Join(title, snippet))
    IN  IF AnyIn(text, RecentWords) THEN "Recent"
        ELSE IF AnyIn(text, ModerateWords) THEN "Moderate"
        ELSE IF AnyIn(text, OldWords) THEN "Old"
        ELSE "Unknown"

has_contact_fields(title, snippet) ==
    AnyIn(Lower(Join(title, snippet)),
          analyzer_self.quality_indicators.contact_data)

payment_indicators == <<
    <<"p", "a", "i", "d">>,
    <<"p", "r", "e", "m", "i", "u", "m">>,
    <<"s", "u", "b", "s", "c", "r", "i", "p", "t", "i", "o", "n">>,
    <<"p", "u", "r", "c", "h", "a", "s", "e">>,
    <<"b", "u", "y">>,
    <<"p", "r", "i", "c", "e">> >>

requires_payment(title, snippet) ==
    AnyIn(Lower(Join(title, snippet)), payment_indicators)

type_score ==
    [Database |-> 90, Directory |-> 80, Excel |-> 85, PDF |-> 70,
     API |-> 95] @@ ("Web Page" :> 60) @@ ("Unknown" :> 30)

method_score ==
    ("API Call" :> 90) @@ ("Manual Download" :> 80) @@ ("Web Scraping" :> 70)
        @@ ("Registration Required" :> 50) @@ ("Paid Access" :> 40)
        @@ ("Not Accessible" :> 10)

\* mutant: a method without a table entry scores 0
calculate_confidence_no_default(doc_type, relevance, extraction_method) ==
    RoundHalf(4 * Get(type_score, doc_type, 50) + 4 * relevance
                  + 2 * Get(method_score, extraction_method, 0), 10)

\* round(type*0.4 + relevance*0.4 + method*0.2, 2), the sum in thousandths
calculate_confidence(doc_type, relevance, extraction_method) ==
    RoundHalf(4 * Get(type_score, doc_type, 50) + 4 * relevance
                  + 2 * Get(method_score, extraction_method, 50), 10)

\* mutant: an absent field reads as the text None
field_none_text(result, key) == Get(result, key, <<"N", "o", "n", "e">>)

\* result.get(key, '')
field(result, key) == Get(result, key, <<>>)

\* DataSourceAnalyzer.analyze_search_result; data_description,
\* year_published and source_organization are left out
analyze(result, domain) ==
    LET url == field(result, "link")
        title == field(result, "title")
        snippet == field(result, "snippet")
        doc_type == determine_document_type(url, title, snippet)
        relevance == calculate_relevance(title, snippet, domain)
        size == estimate_data_size(title, snippet, doc_type)
        method == determine_extraction_method(url, title, snippet, doc_type)
    IN  [url |-> url,
         title |-> title,
         domain |-> Netloc(url),
         document_type |-> doc_type,
         relevance_score |-> relevance,
         estimated_rows |-> size[1],
         estimated_fields |-> size[2],
         extraction_method |-> method,
         contact_fields_available |-> has_contact_fields(title, snippet),
         requires_payment |-> requires_payment(title, snippet),
         data_freshness |-> freshness(title, snippet),
         confidence_score |-> calculate_confidence(doc_type, relevance, method)]

\* ---------------------------------------------- analyzer specification
ExampleHit ==
    [link |-> <<"h", "t", "t", "p", "s", ":", "/", "/", "x", ".", "g",
                "o", "v", ".", "i", "n", "/", "d", "i", "r", "e", "c",
                "t", "o", "r", "y", ".", "p", "d", "f">>,
     title |-> <<"C", "o", "m", "p", "r", "e", "h", "e", "n", "s", "i",
                 "v", "e", " ", "C", "h", "e", "m", "i", "c", "a", "l",
                 " ", "C", "o", "m", "p", "a", "n", "i", "e", "s", " ",
                 "D", "i", "r", "e", "c", "t", "o", "r", "y", " ", "I",
                 "n", "d", "i", "a", " ", "2", "0", "2", "4">>,
     snippet |-> <<"L", "i", "s", "t", " ", "o", "f", " ", "1", "2", "0",
                   "0", " ", "c", "h", "e", "m", "i", "c", "a", "l", " ",
                   "m", "a", "n", "u", "f", "a", "c", "t", "u", "r", "e",
                   "r", "s">>]

\* no snippet; the url carries a type marker and a number
StateHit ==
    [link |-> <<"h", "t", "t", "p", ":", "/", "/", "s", "t", "a", "t",
                "s", ".", "e", "x", "a", "m", "p", "l", "e", ".", "c",
                "o", "m", "/", "d", "b", "/", "e", "x", "p", "o", "r",
                "t", "5", "0", "0", ".", "x", "l", "s">>,
     title |-> <<"T", "o", "p", " ", "c", "o", "m", "p", "a", "n", "i",
                 "e", "s", " ", "i", "n", " ", "G", "u", "j", "a", "r",
                 "a", "t">>]

\* no link
PlainHit ==
    [title |-> <<"S", "h", "i", "p", "p", "i", "n", "g", " ", "a", "n",
                 "d", " ", "l", "o", "g", "i", "s", "t", "i", "c", "s",
                 " ", "f", "i", "r", "m", "s">>,
     snippet |-> <<"p", "o", "r", "t", " ", "c", "a", "r", "g", "o", " ",
                   "c", "o", "n", "t", "a", "c", "t", " ", "d", "e", "t",
                   "a", "i", "l", "s">>]

\* only a link
LinkOnlyHit == [link |-> <<"h", "t", "t", "p", "s", ":", "/", "/", "w",
                           "w", "w", ".", "t", "r", "a", "d", "e", "i",
                           "n", "d", "i", "a", ".", "c", "o", "m", "/",
                           "l", "o", "g", "i", "n">>]

SeedHits == {ExampleHit, StateHit, PlainHit, LinkOnlyHit}

Vocabulary == <<
    <<"P", "D", "F">>,
    <<"e", "x", "c", "e", "l">>,
    <<"a", "p", "i">>,
    <<"d", "a", "t", "a", "b", "a", "s", "e">>,
    <<"l", "i", "s", "t", "i", "n", "g">>,
    <<"l", "o", "g", "i", "n">>,
    <<"p", "r", "i", "c", "e">>,
    <<"p", "r", "e", "m", "i", "u", "m">>,
    <<"5", "0", "0">>,
    <<"5">>,
    <<"2", "0", "0", "0", "0", "0">>,
    <<"c", "o", "m", "p", "l", "e", "t", "e">>,
    <<"2", "0", "2", "1">>,
    <<"2", "0", "2", "3">>,
    <<"l", "a", "t", "e", "s", "t">>,
    <<"p", "e", "t", "r", "o", "c", "h", "e", "m", "i", "c", "a", "l">>,
    <<"p", "h", "a", "r", "m", "a", "c", "e", "u", "t", "i", "c", "a", "l">>,
    <<"v", "e", "r", "i", "f", "i", "e", "d">>,
    <<"0">> >>

TargetDomains == {"Chemical_Petrochemical", "Shipping", "Custom_Domain"}

RelevanceScores == 0..100

InitAnalyzer ==
    /\ engine = "none"
    /\ google_available = FALSE
    /\ queries = <<>>
    /\ i = 0
    /\ pc = "hit"
    /\ attempt = 0
    /\ calls = 0
    /\ provider_calls = 0
    /\ slept = 0
    /\ last_outcome = "none"
    /\ query_result = <<>>
    /\ results = <<>>
    /\ search_count = 0
    /\ all_results = <<>>
    /\ provider_failed = {}
    /\ finput = <<>>
    /\ foutput = <<>>
    /\ use_free_search = FALSE
    /\ serpapi_key = FALSE
    /\ init_error = "none"
    /\ raw_hit \in SeedHits
    /\ target_domain = ""
    /\ analysis = <<>>
    /\ words_added = <<>>
    /\ conf_call = <<>>
    /\ analyzer_self = NewAnalyzer
    /\ other_analysis = <<>>
    /\ repeat_analysis = <<>>

\* the provider's title has one more word; words_added lists the words by
\* their place in Vocabulary, taken in ascending order
AddTitleWord ==
    /\ pc = "hit"
    /\ Len(words_added) < MaxWords
    /\ \E w \in 1..Len(Vocabulary) :
        /\ \A k \in 1..Len(words_added) : words_added[k] < w
        /\ words_added' = Append(words_added, w)
        /\ raw_hit' = Update(raw_hit,
               [title |-> IF "title" \in DOMAIN raw_hit
                          THEN Join(raw_hit.title, Vocabulary[w])
                          ELSE Vocabulary[w]])
    /\ UNCHANGED <<main_vars, target_domain, analysis, conf_call,
                   analyzer_self, other_analysis, repeat_analysis, engine,
                   google_available, all_results, queries, i, pc, attempt, calls,
                   provider_calls, slept, last_outcome, query_result,
                   results, search_count, provider_failed, finput, foutput>>

\* analyzer.analyze_search_result(result, target_domain)
Analyze ==
    /\ pc \in {"hit", "partial"}
    /\ \E d \in TargetDomains :
        /\ target_domain' = d
        /\ analysis' = analyze(raw_hit, d)
    /\ analyzer_self' = self_after_call(analyzer_self)
    /\ pc' = "analyzed"
    /\ UNCHANGED <<main_vars, raw_hit, words_added, conf_call,
                   other_analysis, repeat_analysis, engine,
                   google_available, all_results, queries, i, attempt, calls,
                   provider_calls, slept, last_outcome, query_result,
                   results, search_count, provider_failed, finput, foutput>>

\* _calculate_confidence called on any type, relevance and method
ConfidenceCall ==
    /\ pc = "hit"
    /\ raw_hit = LinkOnlyHit
    /\ \E t \in DocumentTypes, r \in RelevanceScores, m \in ExtractionMethods :
        conf_call' = [doc_type |-> t, relevance |-> r, extraction_method |-> m,
                      confidence |-> calculate_confidence(t, r, m)]
    /\ pc' = "confidence"
    /\ UNCHANGED <<main_vars, raw_hit, target_domain, analysis, words_added,
                   analyzer_self, other_analysis, repeat_analysis,
                   engine, google_available, all_results, queries, i, attempt, calls,
                   provider_calls, slept, last_outcome, query_result,
                   results, search_count, provider_failed, finput, foutput>>

\* d without the key
Without(d, key) == [k \in (DOMAIN d) \ {key} |-> d[k]]

\* the provider's hit lacks one more of its fields
DropField ==
    /\ pc \in {"hit", "partial"}
    /\ words_added = <<>>
    /\ \E key \in DOMAIN raw_hit : raw_hit' = Without(raw_hit, key)
    /\ pc' = "partial"
    /\ UNCHANGED <<main_vars, target_domain, analysis, words_added,
                   conf_call, analyzer_self, other_analysis, repeat_analysis,
                   engine, google_available, all_results, queries, i, attempt, calls,
                   provider_calls, slept, last_outcome, query_result,
                   results, search_count, provider_failed, finput, foutput>>

NextAnalyzer ==
    \/ AddTitleWord
    \/ DropField
    \/ Analyze
    \/ ConfidenceCall

SpecAnalyzer == InitAnalyzer /\ [][NextAnalyzer]_vars

\* ------------------------------------------ repeated analyzer calls
\* another hit is analysed by the same analyzer
AnalyzeOther ==
    /\ pc = "analyzed"
    /\ \E h \in SeedHits, d \in TargetDomains :
        other_analysis' = analyze(h, d)
    /\ analyzer_self' = self_after_call(analyzer_self)
    /\ UNCHANGED <<main_vars, raw_hit, target_domain, analysis, words_added,
                   conf_call, repeat_analysis, engine, google_available,
                   all_results, queries, i, pc, attempt, calls, provider_calls, slept,
                   last_outcome, query_result, results, search_count,
                   provider_failed, finput, foutput>>

\* the first hit is analysed again, for the same domain
AnalyzeAgain ==
    /\ pc = "analyzed"
    /\ repeat_analysis' = analyze(raw_hit, target_domain)
    /\ analyzer_self' = self_after_call(analyzer_self)
    /\ pc' = "repeated"
    /\ UNCHANGED <<main_vars, raw_hit, target_domain, analysis, words_added,
                   conf_call, other_analysis, engine, google_available,
                   all_results, queries, i, attempt, calls, provider_calls, slept,
                   last_outcome, query_result, results, search_count,
                   provider_failed, finput, foutput>>

NextRepeat ==
    \/ Analyze
    \/ AnalyzeOther
    \/ AnalyzeAgain

SpecRepeat == InitAnalyzer /\ [][NextRepeat]_vars

Analyzed == pc = "analyzed"

HitUrl == Get(raw_hit, "link", <<>>)

HitTitle == Get(raw_hit, "title", <<>>)

HitSnippet == Get(raw_hit, "snippet", <<>>)

\* lower-cased "url title snippet"
FullText == Lower(Join(Join(HitUrl, HitTitle), HitSnippet))

\* lower-cased "title snippet"
BodyText == Lower(Join(HitTitle, HitSnippet))

\* the numbers of the text that lie between 10 and 100000
Qualifying(text) ==
    LET all == FindNumbers(text)
    IN  {all[k] : k \in {j \in 1..Len(all) : 10 <= all[j] /\ all[j] <= 100000}}

\* C12: the document type is that of the first group, in the order PDF,
\* Excel, API, Database, Directory, with a marker in the lower-cased
\* "url title snippet", and Web Page when no group has one
C12_FirstMatchingGroup ==
    Analyzed =>
        LET text == FullText
            t == analysis.document_type
            pdf == AnyIn(text, PdfPatterns)
            excel == AnyIn(text, ExcelPatterns)
            api == AnyIn(text, ApiPatterns)
            db == AnyIn(text, DatabasePatterns)
            dir == AnyIn(text, DirectoryPatterns)
        IN  /\ pdf => t = "PDF"
            /\ (~pdf /\ excel) => t = "Excel"
            /\ (~pdf /\ ~excel /\ api) => t = "API"
            /\ (~pdf /\ ~excel /\ ~api /\ db) => t = "Database"
            /\ (~pdf /\ ~excel /\ ~api /\ ~db /\ dir) => t = "Directory"
            /\ (~pdf /\ ~excel /\ ~api /\ ~db /\ ~dir) => t = "Web Page"

\* a PDF marker together with "directory"
C12_Witness ==
    /\ Analyzed
    /\ Contains(FullText, <<"p", "d", "f">>)
    /\ Contains(FullText, <<"d", "i", "r", "e", "c", "t", "o", "r", "y">>)
    /\ analysis.document_type = "PDF"

\* C13: the extraction method is that of the first rule that applies:
\* restriction word, payment word, API type or "api", PDF or Excel type,
\* and Web Scraping otherwise
C13_FirstMatchingRule ==
    Analyzed =>
        LET text == FullText
            t == analysis.document_type
            m == analysis.extraction_method
            restricted == AnyIn(text, RestrictionWords)
            payment == AnyIn(text, PaymentWords)
            api == t = "API" \/ Contains(text, ApiWord)
            file == t \in {"PDF", "Excel"}
        IN  /\ restricted => m = "Registration Required"
            /\ (~restricted /\ payment) => m = "Paid Access"
            /\ (~restricted /\ ~payment /\ api) => m = "API Call"
            /\ (~restricted /\ ~payment /\ ~api /\ file)
                   => m = "Manual Download"
            /\ (~restricted /\ ~payment /\ ~api /\ ~file)
                   => m = "Web Scraping"

\* "login" together with "pdf"
C13_Witness ==
    /\ Analyzed
    /\ Contains(FullText, <<"l", "o", "g", "i", "n">>)
    /\ Contains(FullText, <<"p", "d", "f">>)
    /\ analysis.document_type = "PDF"
    /\ analysis.extraction_method = "Registration Required"

\* C14: when title and snippet hold a number N between 10 and 100000 and
\* no larger such number, estimated_rows is N whatever the document type
\* and the trigger words
C14_RowCountOverride ==
    Analyzed =>
        LET Q == Qualifying(BodyText)
        IN  \A N \in Q :
                (\A M \in Q : M <= N) => analysis.estimated_rows = N

\* a count above the cap in a text with a cap word and a state name
C14_Witness ==
    /\ Analyzed
    /\ Qualifying(BodyText) # {}
    /\ AnyIn(BodyText, TopWords)
    /\ AnyIn(BodyText, StateNames)
    /\ analysis.estimated_rows > 200

\* C15 (as stated): the example hit analysed against Chemical_Petrochemical
\* gives PDF, estimated_rows 1200, Recent and Manual Download
C15_ExampleAsStated ==
    (Analyzed /\ raw_hit = ExampleHit
        /\ target_domain = "Chemical_Petrochemical") =>
        /\ analysis.document_type = "PDF"
        /\ analysis.estimated_rows = 1200
        /\ analysis.data_freshness = "Recent"
        /\ analysis.extraction_method = "Manual Download"

\* C15 (amended): the example hit analysed against Chemical_Petrochemical
\* gives PDF, estimated_rows 2024 (the year in the title is the largest
\* number between 10 and 100000), Recent and Manual Download
C15_ExampleYearWins ==
    (Analyzed /\ raw_hit = ExampleHit
        /\ target_domain = "Chemical_Petrochemical") =>
        /\ analysis.document_type = "PDF"
        /\ analysis.estimated_rows = 2024
        /\ analysis.data_freshness = "Recent"
        /\ analysis.extraction_method = "Manual Download"

C15_Witness ==
    /\ Analyzed
    /\ raw_hit = ExampleHit
    /\ target_domain = "Chemical_Petrochemical"
    /\ Qualifying(BodyText) = {1200, 2024}
    /\ analysis.estimated_rows = 2024

\* C16: with no number between 10 and 100000 in title and snippet, rows and
\* fields are the base pair of the document type, then x3 rows and x1.5
\* fields on an extensive word, then rows capped at 200 on a top word, then
\* rows x0.7 truncated on a state name; the base pair when no word appears
C16_SizeWithoutCount ==
    (Analyzed /\ Qualifying(BodyText) = {}) =>
        LET text == BodyText
            base == base_estimates[analysis.document_type]
            extensive == AnyIn(text, ExtensiveWords)
            top == AnyIn(text, TopWords)
            state == AnyIn(text, StateNames)
            r1 == IF extensive THEN 3 * base[1] ELSE base[1]
            r2 == IF top /\ r1 > 200 THEN 200 ELSE r1
            r3 == IF state THEN (7 * r2) \div 10 ELSE r2
        IN  /\ analysis.estimated_rows = r3
            /\ analysis.estimated_fields =
                   (IF extensive THEN (3 * base[2]) \div 2 ELSE base[2])
            /\ (~extensive /\ ~top /\ ~state) =>
                   /\ analysis.estimated_rows = base[1]
                   /\ analysis.estimated_fields = base[2]

\* all three adjustments act: Excel 500 -> 1500 -> 200 -> 140
C16_Witness ==
    /\ Analyzed
    /\ Qualifying(BodyText) = {}
    /\ AnyIn(BodyText, ExtensiveWords)
    /\ AnyIn(BodyText, TopWords)
    /\ AnyIn(BodyText, StateNames)
    /\ analysis.document_type = "Excel"
    /\ analysis.estimated_rows = 140
    /\ analysis.estimated_fields = 18

\* C17: relevance_score is a whole number of hundredths in [0,1], the
\* nearest one to 0.5*keyword_score + 0.3*quality_score + 0.2*locale_score
\* with both scores clipped to 1 and the locale score 0.3 or 1.0
C17_RelevanceRounded ==
    Analyzed =>
        LET text == BodyText
            keywords == Get(domain_keywords, target_domain, <<>>)
            n == Len(keywords)
            KN == IF n = 0 THEN 1 ELSE Min(CountIn(text, keywords), n)
            KD == IF n = 0 THEN 2 ELSE n
            q == Min(CountIn(text, high_quality), 3)
            locale == IF AnyIn(text, india_keywords) THEN 20 ELSE 6
            N == 50 * KN + KD * (10 * q + locale)
            diff == analysis.relevance_score * KD - N
        IN  /\ analysis.relevance_score \in 0..100
            /\ 2 * diff <= KD
            /\ 2 * diff >= -KD

\* more than three quality indicators: the clip acts
C17_Witness ==
    /\ Analyzed
    /\ CountIn(BodyText, high_quality) > 3
    /\ target_domain = "Chemical_Petrochemical"
    /\ analysis.relevance_score \in 0..100

\* C18: for a domain without keyword list the keyword score is 0.5, so
\* relevance_score = 0.25 + 0.3*quality_score + 0.2*locale_score
C18_NeutralKeywordScore ==
    (Analyzed /\ target_domain \notin DOMAIN domain_keywords) =>
        LET text == BodyText
            q == Min(CountIn(text, high_quality), 3)
            locale == IF AnyIn(text, india_keywords) THEN 20 ELSE 6
        IN  analysis.relevance_score = 25 + 10 * q + locale

C18_Witness ==
    /\ Analyzed
    /\ target_domain = "Custom_Domain"
    /\ HitTitle = <<>>
    /\ HitSnippet = <<>>
    /\ analysis.relevance_score = 31

\* the score of a _calculate_confidence call: the type, relevance and
\* method, the returned value, and the two base values in hundredths
ConfidenceIs(t, r, m, c, type_base, method_base) ==
    LET sum == 4 * type_base + 4 * r + 2 * method_base
    IN  /\ c \in 0..100
        /\ 2 * (10 * c - sum) <= 10
        /\ 2 * (10 * c - sum) >= -10

TableMethods ==
    {"API Call", "Manual Download", "Web Scraping", "Registration Required",
     "Paid Access", "Not Accessible"}

\* C19 (as stated): confidence_score is round(0.4*type_base +
\* 0.4*relevance_score + 0.2*method_base, 2) in [0,1], where an Unknown
\* type and a method without table entry contribute 0.5
C19_UnknownTypeIsHalf ==
    pc = "confidence" =>
        ConfidenceIs(conf_call.doc_type, conf_call.relevance,
                     conf_call.extraction_method, conf_call.confidence,
                     IF conf_call.doc_type = "Unknown" THEN 50
                     ELSE type_score[conf_call.doc_type],
                     IF conf_call.extraction_method \in TableMethods
                     THEN method_score[conf_call.extraction_method]
                     ELSE 50)

\* C19 (amended): confidence_score is round(0.4*type_base +
\* 0.4*relevance_score + 0.2*method_base, 2) in [0,1], where an Unknown
\* type contributes its table value 0.3 and a method without table entry
\* contributes 0.5; the analysis record's score is this value too
C19_UnknownTypeIsTabled ==
    /\ pc = "confidence" =>
        ConfidenceIs(conf_call.doc_type, conf_call.relevance,
                     conf_call.extraction_method, conf_call.confidence,
                     IF conf_call.doc_type = "Unknown" THEN 30
                     ELSE type_score[conf_call.doc_type],
                     IF conf_call.extraction_method \in TableMethods
                     THEN method_score[conf_call.extraction_method]
                     ELSE 50)
    /\ Analyzed =>
        ConfidenceIs(analysis.document_type, analysis.relevance_score,
                     analysis.extraction_method, analysis.confidence_score,
                     type_score[analysis.document_type],
                     method_score[analysis.extraction_method])

\* Unknown type and a method outside the table: 0.12 + 0.40 + 0.10
C19_Witness ==
    /\ pc = "confidence"
    /\ conf_call.doc_type = "Unknown"
    /\ conf_call.extraction_method = "Form Submission"
    /\ conf_call.relevance = 100
    /\ conf_call.confidence = 62

\* C20: the freshness is that of the first rule that applies: Recent on
\* 2024/2025/latest/current, Moderate on 2022/2023, Old on 2020/2021, and
\* Unknown otherwise
C20_FreshnessOrder ==
    Analyzed =>
        LET text == BodyText
            f == analysis.data_freshness
            recent == AnyIn(text, RecentWords)
            moderate == AnyIn(text, ModerateWords)
            old == AnyIn(text, OldWords)
        IN  /\ recent => f = "Recent"
            /\ (~recent /\ moderate) => f = "Moderate"
            /\ (~recent /\ ~moderate /\ old) => f = "Old"
            /\ (~recent /\ ~moderate /\ ~old) => f = "Unknown"

\* 2024 together with 2021
C20_Witness ==
    /\ Analyzed
    /\ Contains(BodyText, <<"2", "0", "2", "4">>)
    /\ Contains(BodyText, <<"2", "0", "2", "1">>)
    /\ analysis.data_freshness = "Recent"

\* the hit with each absent field set to the empty string
FilledHit == [link |-> HitUrl, title |-> HitTitle, snippet |-> HitSnippet]

\* C21: for a hit that lacks any of link, title and snippet the analysis
\* is the record of the hit with each absent field set to the empty string
C21_AbsentFieldsAreEmpty ==
    (Analyzed /\ DOMAIN raw_hit # {"link", "title", "snippet"}) =>
        analysis = analyze(FilledHit, target_domain)

\* the hit without any field
C21_Witness ==
    /\ Analyzed
    /\ DOMAIN raw_hit = {}
    /\ analysis.url = <<>>
    /\ analysis.title = <<>>
    /\ analysis.document_type = "Web Page"
    /\ analysis.estimated_rows = 50

\* C22: estimated_rows and estimated_fields of every analysis record are
\* integers of at least 1
C22_SizePositive ==
    Analyzed =>
        /\ analysis.estimated_rows \in Nat
        /\ analysis.estimated_rows >= 1
        /\ analysis.estimated_fields \in Nat
        /\ analysis.estimated_fields >= 1

\* a number below 10 in the text, and the smallest adjusted estimate
C22_Witness ==
    /\ Analyzed
    /\ 0 \in {FindNumbers(BodyText)[k] : k \in 1..Len(FindNumbers(BodyText))}
    /\ AnyIn(BodyText, StateNames)
    /\ analysis.estimated_rows = 140

IsSuccess(r) == Get(r, "status", "success") = "success"

\* C24: search_count starts at 0 and never decreases; the return of a
\* search_query call adds exactly one when the returned record is a success
\* record and nothing when it is an error or no_results record, and no
\* other step changes it
C24_SearchCount ==
    /\ search_count = 0
    /\ [][IF pc = "exec" /\ pc' = "loop"
          THEN search_count' =
                   search_count + (IF IsSuccess(query_result'[1]) THEN 1 ELSE 0)
          ELSE search_count' = search_count]_vars

\* one call that counted and then one that did not
C24_Witness ==
    /\ engine = "serpapi"
    /\ pc = "loop"
    /\ i = 2
    /\ search_count = 1
    /\ ~IsSuccess(query_result[1])

\* C25: a call of the filter leaves its input and every other variable as
\* they were, and the filter applied to its own output returns that output
C25_FilterIdempotent ==
    [][(pc = "input" /\ pc' = "filtered") =>
          /\ finput' = finput
          /\ UNCHANGED batch_vars
          /\ filter_results(foutput') = foutput']_vars

\* an output of three records that differs from the input
C25_Witness ==
    /\ pc = "filtered"
    /\ Len(foutput) = 3
    /\ foutput # finput
    /\ filter_results(foutput) = foutput

\* C27: every output record has the highest confidence_score among the
\* passing input records of its domain, and comes first in input order
\* among those with that score; every domain with a passing record is in
\* the output once
C27_BestConfidenceRetained ==
    pc = "filtered" =>
        /\ \A j \in 1..Len(foutput) : \A m \in Passing :
               finput[m].domain = foutput[j].domain =>
                   \/ finput[m].confidence_score < foutput[j].confidence_score
                   \/ /\ finput[m].confidence_score = foutput[j].confidence_score
                      /\ InPos(j) <= m
        /\ \A m \in Passing : \E j \in 1..Len(foutput) :
               foutput[j].domain = finput[m].domain
        /\ \A a, b \in 1..Len(foutput) :
               foutput[a].domain = foutput[b].domain => a = b

\* a later record of higher confidence displaces an earlier one of its
\* domain
C27_Witness ==
    /\ pc = "filtered"
    /\ Len(foutput) >= 2
    /\ \E k, m \in Passing :
        /\ k < m
        /\ finput[k].domain = finput[m].domain
        /\ finput[k].confidence_score < finput[m].confidence_score
        /\ \E j \in 1..Len(foutput) : foutput[j] = finput[m]

\* ------------------------------------------------------------ C26 .. C30
\* the record the last search_query call returned, when it is a success
\* record of the given engine
Returned(e) ==
    /\ engine = e
    /\ Len(query_result) = 1
    /\ IsSuccess(query_result[1])

\* positions of the raw hits that carry a non-empty URL for the first time
FirstOccurrences ==
    {k \in 1..Len(all_results) :
        /\ all_results[k].url # ""
        /\ \A m \in 1..(k - 1) : all_results[m].url # all_results[k].url}

\* C26: in the results of FreeSearchEngine.search_query no two records
\* share a URL and none has an empty URL; the records are the first raw hit
\* of every non-empty URL, in provider order, up to max_results of them, so
\* hits of one host with different URLs are all kept
C26_FreeUniqueUrls ==
    Returned("free") =>
        LET out == query_result[1].results
        IN  /\ \A a, b \in 1..Len(out) : out[a].url = out[b].url => a = b
            /\ \A a \in 1..Len(out) : out[a].url # ""
            /\ Len(out) = Min(Cardinality(FirstOccurrences), free_max_results)
            /\ \A k \in FirstOccurrences :
                   LET j == Cardinality({m \in FirstOccurrences : m <= k})
                   IN  j <= Len(out) => out[j].url = all_results[k].url

\* ten raw hits with an empty URL and repeats of two URLs of one host
C26_Witness ==
    /\ Returned("free")
    /\ Len(all_results) = free_max_results
    /\ all_results[1].url = "https://r.in/1"
    /\ all_results[2].url = ""
    /\ all_results[3].url = "https://r.in/0"
    /\ all_results[4].url = "https://r.in/1"
    /\ Len(query_result[1].results) = 2
    /\ query_result[1].results[1].url = "https://r.in/1"
    /\ query_result[1].results[2].url = "https://r.in/0"

\* C28 (as stated): a batch record has status "error" only if the provider
\* call of its query failed on every attempt, whichever generator the query
\* dictionary comes from
C28_ErrorOnlyOnProviderFailure ==
    \A j \in 1..Len(results) :
        Get(results[j], "status", "success") = "error" => j \in provider_failed

\* C29: a success record of SearchEngine.search_query counts as analysed the
\* hits among the first max_results whose analysis did not raise, and
\* relevant_results = len(results) <= analyzed_results
\* <= min(total_results, max_results)
C29_CountsConsistent ==
    Returned("serpapi") =>
        LET r == query_result[1]
            sliced == Min(Len(all_results), RESULTS_PER_QUERY)
        IN  /\ r.total_results = Len(all_results)
            /\ r.analyzed_results =
                   Cardinality({k \in 1..sliced : ~all_results[k].malformed})
            /\ r.relevant_results = Len(r.results)
            /\ r.relevant_results <= r.analyzed_results
            /\ r.analyzed_results <= Min(r.total_results, RESULTS_PER_QUERY)

\* the second of sixteen hits raises: fourteen of the first fifteen are
\* analysed
C29_Witness ==
    /\ Returned("serpapi")
    /\ Len(all_results) = RESULTS_PER_QUERY + 1
    /\ all_results[2].malformed
    /\ query_result[1].total_results = RESULTS_PER_QUERY + 1
    /\ query_result[1].analyzed_results = RESULTS_PER_QUERY - 1
    /\ query_result[1].relevant_results >= 1
    /\ query_result[1].relevant_results < query_result[1].analyzed_results

\* C30: a record with requires_payment true has the extraction method
\* Registration Required or Paid Access
C30_PaymentMethod ==
    (Analyzed /\ analysis.requires_payment) =>
        analysis.extraction_method \in {"Registration Required", "Paid Access"}

\* "price" in the title of a PDF hit: Paid Access, not Manual Download
C30_Witness ==
    /\ Analyzed
    /\ analysis.requires_payment
    /\ analysis.extraction_method = "Paid Access"
    /\ analysis.document_type = "PDF"

====
